---- MODULE Spec2Model ----
(***************************************************************************)
(* Scope classification and conversation orchestration of the Schengen     *)
(* visa chat page.  The repository holds four versions of the page:        *)
(*   "page"    src/app/page.tsx lines 1-479     (greeting, capability,     *)
(*             keyword test, all inside onSubmit)                          *)
(*   "onSend"  src/app/page.tsx lines 481-807   (classification in the     *)
(*             onSend option of useChat, country list)                     *)
(*   "onSend2" src/app/page.tsx lines 809-1117  (same, country+city list)  *)
(*   "gated"   src/unnamed/part_000             (capability reply only for *)
(*             the first user message, no greeting branch)                 *)
(* A text is a sequence of one-character strings.                          *)
(***************************************************************************)
EXTENDS Integers, Sequences, FiniteSets, TLC

Variants == {"page", "onSend", "onSend2", "gated"}

(***************************************************************************)
(* String primitives of the JavaScript runtime, as the page uses them.     *)
(***************************************************************************)
UPPER ==
  <<"A","B","C","D","E","F","G","H","I","J","K","L","M",
    "N","O","P","Q","R","S","T","U","V","W","X","Y","Z">>

LOWER ==
  <<"a","b","c","d","e","f","g","h","i","j","k","l","m",
    "n","o","p","q","r","s","t","u","v","w","x","y","z">>

\* the character class [a-z]
LowerLetters == {LOWER[i] : i \in 1..26}

\* the character class \s (the inputs use the space and the tab)
isSpace(c) == c \in {" ", "\t"}

toLowerChar(c) ==
  IF \E i \in 1..26 : UPPER[i] = c
    THEN LOWER[CHOOSE i \in 1..26 : UPPER[i] = c]
    ELSE c

\* String.prototype.toLowerCase
toLowerCase(s) == [i \in 1..Len(s) |-> toLowerChar(s[i])]

\* s.replace(/\?/g, "")
stripQuestionMarks(s) == SelectSeq(s, LAMBDA c : c # "?")

\* s.replace(/\s+/g, " "): every maximal run of white space becomes one space
collapseWhitespace(s) ==
  LET positions == [i \in 1..Len(s) |-> i]
      kept == SelectSeq(positions,
                LAMBDA i : ~isSpace(s[i]) \/ i = 1 \/ ~isSpace(s[i - 1]))
  IN  [j \in 1..Len(kept) |-> IF isSpace(s[kept[j]]) THEN " " ELSE s[kept[j]]]

\* String.prototype.trim
trim(s) ==
  LET idx == {i \in 1..Len(s) : ~isSpace(s[i])}
      fromEnd == {Len(s) + 1 - i : i \in idx}
      least(S) == CHOOSE i \in S : \A j \in S : i <= j
  IN  IF idx = {} THEN <<>>
      ELSE SubSeq(s, least(idx), Len(s) + 1 - least(fromEnd))

\* s.replace(/[^a-z ]/g, "")
stripNonLetters(s) == SelectSeq(s, LAMBDA c : c \in LowerLetters \/ c = " ")

\* String.prototype.includes
includes(s, k) ==
  \E i \in 0..(Len(s) - Len(k)) : SubSeq(s, i + 1, i + Len(k)) = k

\* Array.prototype.includes on an array of strings
arrayIncludes(arr, s) == \E i \in 1..Len(arr) : arr[i] = s

\* someIncluded, but with the test turned round: (k) => k.includes(s)
someIncludes(arr, s) == \E i \in 1..Len(arr) : includes(arr[i], s)

\* Array.prototype.some((k) => s.includes(k))
someIncluded(arr, s) == \E i \in 1..Len(arr) : includes(s, arr[i])

(***************************************************************************)
(* Keyword corpus and phrase lists of the four versions.                   *)
(***************************************************************************)
\* page.tsx:227  ["hi", "hello", "hey", "hii", "heyy", "helo"]
greetings ==
  <<
    <<"h","i">>,
    <<"h","e","l","l","o">>,
    <<"h","e","y">>,
    <<"h","i","i">>,
    <<"h","e","y","y">>,
    <<"h","e","l","o">>
  >>

\* page.tsx:256-267
capabilityPhrases ==
  <<
    <<"w","h","a","t"," ","c","a","n"," ","y","o","u"," ","d","o">>,
    <<"w","h","a","t"," ","c","a","n"," ","y","o","u"," ","d","o"," ","f","o","r"," ","m","e">>,
    <<"w","h","a","t"," ","c","a","n"," ","u"," ","d","o">>,
    <<"w","h","a","t"," ","c","a","n"," ","u"," ","d","o"," ","f","o","r"," ","m","e">>,
    <<"w","h","o"," ","a","r","e"," ","y","o","u">>,
    <<"w","h","o"," ","r"," ","u">>,
    <<"w","h","a","t"," ","a","r","e"," ","y","o","u"," ","b","u","i","l","t"," ","f","o","r">>,
    <<"w","h","a","t"," ","a","r","e"," ","u"," ","b","u","i","l","t"," ","f","o","r">>,
    <<"w","h","a","t"," ","a","r","e"," ","y","o","u"," ","m","a","d","e"," ","f","o","r">>,
    <<"w","h","a","t"," ","a","r","e"," ","u"," ","m","a","d","e"," ","f","o","r">>
  >>

\* page.tsx:96-145, the keyword list of isSchengenVisaQuery
keywords ==
  <<
    <<"s","c","h","e","n","g","e","n">>,
    <<"v","i","s","a">>,
    <<"v","f","s">>,
    <<"e","m","b","a","s","s","y">>,
    <<"c","o","n","s","u","l","a","t","e">>,
    <<"a","p","p","o","i","n","t","m","e","n","t">>,
    <<"b","i","o","m","e","t","r","i","c">>,
    <<"p","a","s","s","p","o","r","t">>,
    <<"t","r","a","v","e","l">>,
    <<"i","t","i","n","e","r","a","r","y">>,
    <<"f","l","i","g","h","t">>,
    <<"t","i","c","k","e","t">>,
    <<"a","c","c","o","m","m","o","d","a","t","i","o","n">>,
    <<"h","o","t","e","l">>,
    <<"h","o","s","t","e","l">>,
    <<"s","t","a","y">>,
    <<"u","n","i","v","e","r","s","i","t","y">>,
    <<"c","o","l","l","e","g","e">>,
    <<"a","d","m","i","s","s","i","o","n">>,
    <<"o","f","f","e","r"," ","l","e","t","t","e","r">>,
    <<"s","t","u","d","e","n","t"," ","v","i","s","a">>,
    <<"t","y","p","e"," ","d">>,
    <<"s","h","o","r","t"," ","s","t","a","y">>,
    <<"l","o","n","g"," ","s","t","a","y">>,
    <<"n","a","t","i","o","n","a","l"," ","v","i","s","a">>,
    <<"f","r","a","n","c","e">>,
    <<"g","e","r","m","a","n","y">>,
    <<"i","t","a","l","y">>,
    <<"s","p","a","i","n">>,
    <<"n","e","t","h","e","r","l","a","n","d","s">>,
    <<"e","s","t","o","n","i","a">>,
    <<"l","a","t","v","i","a">>,
    <<"l","i","t","h","u","a","n","i","a">>,
    <<"b","e","l","g","i","u","m">>,
    <<"a","u","s","t","r","i","a">>,
    <<"p","o","r","t","u","g","a","l">>,
    <<"d","o","c","u","m","e","n","t","s">>,
    <<"d","o","c","u","m","e","n","t">>,
    <<"c","h","e","c","k","l","i","s","t">>,
    <<"s","p","o","n","s","o","r","s","h","i","p">>,
    <<"s","p","o","n","s","o","r">>,
    <<"i","n","s","u","r","a","n","c","e">>,
    <<"m","e","d","i","c","a","l">>,
    <<"p","c","c">>,
    <<"p","o","l","i","c","e"," ","c","l","e","a","r","a","n","c","e">>,
    <<"p","r","o","o","f"," ","o","f"," ","f","u","n","d","s">>,
    <<"b","a","n","k"," ","s","t","a","t","e","m","e","n","t">>,
    <<"b","l","o","c","k","e","d"," ","a","c","c","o","u","n","t">>
  >>

\* part_000:223-231
introPhrases ==
  <<
    <<"w","h","a","t"," ","c","a","n"," ","y","o","u"," ","d","o"," ","f","o","r"," ","m","e">>,
    <<"w","h","a","t"," ","c","a","n"," ","u"," ","d","o"," ","f","o","r"," ","m","e">>,
    <<"w","h","a","t"," ","c","a","n"," ","y","o","u"," ","d","o">>,
    <<"w","h","o"," ","a","r","e"," ","y","o","u">>,
    <<"w","h","o"," ","r"," ","u">>,
    <<"w","h","a","t"," ","a","r","e"," ","y","o","u"," ","b","u","i","l","t"," ","f","o","r">>,
    <<"w","h","a","t"," ","a","r","e"," ","u"," ","b","u","i","l","t"," ","f","o","r">>
  >>

\* part_000:101-138, the keyword list of isSchengenVisaQuery
keywordsGated ==
  <<
    <<"s","c","h","e","n","g","e","n">>,
    <<"v","i","s","a">>,
    <<"v","f","s">>,
    <<"e","m","b","a","s","s","y">>,
    <<"c","o","n","s","u","l","a","t","e">>,
    <<"a","p","p","o","i","n","t","m","e","n","t">>,
    <<"b","i","o","m","e","t","r","i","c">>,
    <<"p","a","s","s","p","o","r","t">>,
    <<"t","r","a","v","e","l">>,
    <<"i","t","i","n","e","r","a","r","y">>,
    <<"f","l","i","g","h","t">>,
    <<"t","i","c","k","e","t">>,
    <<"a","c","c","o","m","m","o","d","a","t","i","o","n">>,
    <<"h","o","t","e","l">>,
    <<"h","o","s","t","e","l">>,
    <<"u","n","i","v","e","r","s","i","t","y">>,
    <<"a","d","m","i","s","s","i","o","n">>,
    <<"o","f","f","e","r"," ","l","e","t","t","e","r">>,
    <<"s","t","u","d","e","n","t"," ","v","i","s","a">>,
    <<"t","y","p","e"," ","d">>,
    <<"s","h","o","r","t"," ","s","t","a","y">>,
    <<"l","o","n","g"," ","s","t","a","y">>,
    <<"f","r","a","n","c","e">>,
    <<"g","e","r","m","a","n","y">>,
    <<"i","t","a","l","y">>,
    <<"s","p","a","i","n">>,
    <<"n","e","t","h","e","r","l","a","n","d","s">>,
    <<"d","o","c","u","m","e","n","t","s">>,
    <<"d","o","c","u","m","e","n","t">>,
    <<"c","h","e","c","k","l","i","s","t">>,
    <<"s","p","o","n","s","o","r","s","h","i","p">>,
    <<"s","p","o","n","s","o","r">>,
    <<"i","n","s","u","r","a","n","c","e">>,
    <<"m","e","d","i","c","a","l">>,
    <<"p","c","c">>,
    <<"p","o","l","i","c","e"," ","c","l","e","a","r","a","n","c","e">>
  >>

\* page.tsx:543-571
SCHENGEN_COUNTRIES ==
  <<
    <<"f","r","a","n","c","e">>,
    <<"g","e","r","m","a","n","y">>,
    <<"s","w","e","d","e","n">>,
    <<"n","e","t","h","e","r","l","a","n","d","s">>,
    <<"i","t","a","l","y">>,
    <<"s","p","a","i","n">>,
    <<"p","o","r","t","u","g","a","l">>,
    <<"f","i","n","l","a","n","d">>,
    <<"b","e","l","g","i","u","m">>,
    <<"c","z","e","c","h">>,
    <<"c","z","e","c","h"," ","r","e","p","u","b","l","i","c">>,
    <<"a","u","s","t","r","i","a">>,
    <<"s","w","i","t","z","e","r","l","a","n","d">>,
    <<"n","o","r","w","a","y">>,
    <<"d","e","n","m","a","r","k">>,
    <<"e","s","t","o","n","i","a">>,
    <<"l","a","t","v","i","a">>,
    <<"l","i","t","h","u","a","n","i","a">>,
    <<"s","l","o","v","a","k","i","a">>,
    <<"s","l","o","v","e","n","i","a">>,
    <<"h","u","n","g","a","r","y">>,
    <<"p","o","l","a","n","d">>,
    <<"m","a","l","t","a">>,
    <<"l","u","x","e","m","b","o","u","r","g">>,
    <<"i","c","e","l","a","n","d">>,
    <<"l","i","e","c","h","t","e","n","s","t","e","i","n">>,
    <<"g","r","e","e","c","e">>
  >>

\* page.tsx:580-588, the visa hints of isSchengenQuery
visaHints ==
  <<
    <<"v","i","s","a">>,
    <<"v","f","s">>,
    <<"a","p","p","o","i","n","t","m","e","n","t">>,
    <<"e","m","b","a","s","s","y">>,
    <<"c","o","n","s","u","l","a","t","e">>,
    <<"s","h","o","r","t"," ","s","t","a","y">>,
    <<"s","c","h","e","n","g","e","n">>
  >>

\* page.tsx:630 and 934  ["hi", "hello", "hey"]
onSendGreetings ==
  <<
    <<"h","i">>,
    <<"h","e","l","l","o">>,
    <<"h","e","y">>
  >>

\* page.tsx:639-643
onSendCapabilityPhrases ==
  <<
    <<"w","h","a","t"," ","c","a","n"," ","y","o","u"," ","d","o">>,
    <<"w","h","a","t"," ","a","r","e"," ","y","o","u"," ","b","u","i","l","t"," ","f","o","r">>,
    <<"w","h","o"," ","a","r","e"," ","y","o","u">>
  >>

\* page.tsx:863-888
SCHENGEN_KEYWORDS ==
  <<
    <<"f","r","a","n","c","e">>,
    <<"p","a","r","i","s">>,
    <<"g","e","r","m","a","n","y">>,
    <<"b","e","r","l","i","n">>,
    <<"i","t","a","l","y">>,
    <<"r","o","m","e">>,
    <<"m","i","l","a","n">>,
    <<"s","p","a","i","n">>,
    <<"m","a","d","r","i","d">>,
    <<"b","a","r","c","e","l","o","n","a">>,
    <<"p","o","r","t","u","g","a","l">>,
    <<"l","i","s","b","o","n">>,
    <<"f","i","n","l","a","n","d">>,
    <<"h","e","l","s","i","n","k","i">>,
    <<"s","w","e","d","e","n">>,
    <<"s","t","o","c","k","h","o","l","m">>,
    <<"a","u","s","t","r","i","a">>,
    <<"v","i","e","n","n","a">>,
    <<"b","e","l","g","i","u","m">>,
    <<"b","r","u","s","s","e","l","s">>,
    <<"p","o","l","a","n","d">>,
    <<"w","a","r","s","a","w">>,
    <<"n","o","r","w","a","y">>,
    <<"o","s","l","o">>,
    <<"d","e","n","m","a","r","k">>,
    <<"c","o","p","e","n","h","a","g","e","n">>,
    <<"e","s","t","o","n","i","a">>,
    <<"t","a","l","l","i","n","n">>,
    <<"l","a","t","v","i","a">>,
    <<"r","i","g","a">>,
    <<"l","i","t","h","u","a","n","i","a">>,
    <<"v","i","l","n","i","u","s">>,
    <<"s","l","o","v","a","k","i","a">>,
    <<"s","l","o","v","e","n","i","a">>,
    <<"h","u","n","g","a","r","y">>,
    <<"b","u","d","a","p","e","s","t">>,
    <<"n","e","t","h","e","r","l","a","n","d","s">>,
    <<"a","m","s","t","e","r","d","a","m">>,
    <<"l","u","x","e","m","b","o","u","r","g">>,
    <<"i","c","e","l","a","n","d">>,
    <<"r","e","y","k","j","a","v","i","k">>,
    <<"l","i","e","c","h","t","e","n","s","t","e","i","n">>,
    <<"s","w","i","t","z","e","r","l","a","n","d">>,
    <<"z","u","r","i","c","h">>,
    <<"g","r","e","e","c","e">>,
    <<"a","t","h","e","n","s">>,
    <<"m","a","l","t","a">>,
    <<"c","z","e","c","h">>,
    <<"p","r","a","g","u","e">>
  >>

\* page.tsx:894
visaHintsCity ==
  <<
    <<"v","i","s","a">>,
    <<"s","c","h","e","n","g","e","n">>,
    <<"v","f","s">>,
    <<"e","m","b","a","s","s","y">>,
    <<"c","o","n","s","u","l","a","t","e">>
  >>

\* page.tsx:942-949
onSendCapabilityPhrasesCity ==
  <<
    <<"w","h","a","t"," ","d","o"," ","y","o","u"," ","d","o">>,
    <<"w","h","a","t"," ","c","a","n"," ","y","o","u"," ","d","o">>,
    <<"w","h","a","t"," ","a","r","e"," ","y","o","u"," ","b","u","i","l","t"," ","f","o","r">>,
    <<"w","h","o"," ","a","r","e"," ","y","o","u">>,
    <<"y","o","u","r"," ","p","u","r","p","o","s","e">>,
    <<"y","o","u","r"," ","s","k","i","l","l","s">>
  >>

\* the excluded jurisdictions of the keyword corpus; no version of the page
\* defines them, the entries are samples of what the design describes
negativeTerms ==
  <<
    <<"u","s","a">>,
    <<"u","k">>,
    <<"c","a","n","a","d","a">>
  >>

(***************************************************************************)
(* Texts a user may type.                                                  *)
(***************************************************************************)
TxtEmpty ==
  <<>>

TxtBlank ==
  <<" ","\t"," ">>

TxtQuestionMark ==
  <<"?">>

TxtHi ==
  <<"h","i">>

TxtHiQ ==
  <<"H","i","?">>

TxtHELLO ==
  <<"H","E","L","L","O">>

TxtHeyPadded ==
  <<" "," ","h","e","y"," ">>

TxtHiiBang ==
  <<"h","i","i","!">>

TxtHiThere ==
  <<"h","i"," ","t","h","e","r","e">>

TxtWhatCanYouDo ==
  <<"W","h","a","t"," ","c","a","n"," ","y","o","u"," ","d","o">>

TxtWhatCanYouDoQ ==
  <<"w","h","a","t"," ","c","a","n"," ","y","o","u"," ","d","o","?">>

TxtWhoAreYouWide ==
  <<"W","h","o"," "," ","a","r","e"," ","y","o","u">>

TxtWhatCanUDo ==
  <<"w","h","a","t"," ","c","a","n"," ","u"," ","d","o">>

TxtTellWhatCanYouDo ==
  <<"t","e","l","l"," ","m","e"," ","w","h","a","t"," ","c","a","n"," ","y","o","u"," ",
    "d","o">>

TxtFranceVisa ==
  <<"F","r","a","n","c","e"," ","v","i","s","a">>

TxtJoke ==
  <<"t","e","l","l"," ","m","e"," ","a"," ","j","o","k","e">>

TxtUkVisa ==
  <<"u","k"," ","v","i","s","a">>

TxtUsaJobs ==
  <<"u","s","a"," ","j","o","b","s">>

TxtIndianApplicant ==
  <<"I"," ","a","m"," ","a","n"," ","I","n","d","i","a","n"," ","a","p","p","l","i","c",
    "a","n","t","."," ","W","h","a","t"," ","d","o","c","u","m","e","n","t","s"," ","d",
    "o"," ","I"," ","n","e","e","d"," ","f","o","r"," ","F","r","a","n","c","e"," ","a",
    "n","d"," ","G","e","r","m","a","n","y"," ","s","t","u","d","y"," ","v","i","s","a",
    "s","?">>

TxtStayInGoa ==
  <<"m","y"," ","s","t","a","y"," ","i","n"," ","G","o","a">>

TxtShortStayWide ==
  <<"S","h","o","r","t"," "," ","s","t","a","y"," ","r","u","l","e","s">>

(***************************************************************************)
(* Bounds of the model.                                                    *)
(***************************************************************************)
\* backend calls one session starts
MaxCalls == 2

\* chunks one backend reply streams before it completes
MaxChunks == 2

\* chunks of a reply in the conversation with several calls in flight
MaxShortReply == 1

\* messages the history holds before the user stops typing
MaxMessages == 5

\* milliseconds the clock advances
MaxClock == 1

\* the largest duration the message wall reports
MaxDuration == 1

\* times localStorage.setItem throws in one session
MaxFailures == 1

\* messages the history holds before the user stops typing, in the session
\* with its store
MaxStored == 3

\* calls of sendMessage in the session with its store
MaxSends == 1

\* backend calls in flight at a time in the conversation with replies of
\* several chunks
MaxInFlight == 1

\* page.tsx:26  .max(2000, ...)
MaxMessageLength == 2000

\* the longest message the form accepts and the shortest it rejects for
\* its length
TxtSchengen ==
  <<"s","c","h","e","n","g","e","n"," ","F","r","a","n","c","e"," ","v","i","s","a"," ">>

longText(n) ==
  [i \in 1..n |-> IF i <= Len(TxtSchengen) THEN TxtSchengen[i] ELSE "a"]

TxtLongest == longText(MaxMessageLength)

TxtTooLong == longText(MaxMessageLength + 1)

\* the texts typed in the validation specification
LengthTexts == {TxtHi, TxtFranceVisa, TxtLongest, TxtTooLong}

\* the texts typed in the session specification
SessionTexts == {TxtHi, TxtFranceVisa}

\* the texts typed in the classification specification
AllTexts ==
  {TxtEmpty, TxtBlank, TxtQuestionMark, TxtHi, TxtHiQ, TxtHELLO, TxtHeyPadded,
   TxtHiiBang, TxtHiThere, TxtWhatCanYouDo, TxtWhatCanYouDoQ, TxtWhoAreYouWide,
   TxtWhatCanUDo, TxtTellWhatCanYouDo, TxtFranceVisa, TxtJoke, TxtUkVisa,
   TxtUsaJobs, TxtIndianApplicant, TxtStayInGoa, TxtShortStayWide}

(***************************************************************************)
(* Scope classification, one definition per place of the source.           *)
(***************************************************************************)
\* page.tsx:220-224 and part_000:213-217
normalize(userText) ==
  trim(collapseWhitespace(stripQuestionMarks(toLowerCase(userText))))

\* page.tsx:228
cleanedOf(normalized) == trim(stripNonLetters(normalized))

\* page.tsx:95-148
isSchengenVisaQuery(normalized) == someIncluded(keywords, normalized)

\* part_000:100-141
isSchengenVisaQueryGated(normalized) == someIncluded(keywordsGated, normalized)

\* page.tsx:573-592
isSchengenQuery(msg) ==
  LET m == toLowerCase(msg)
  IN  IF someIncluded(SCHENGEN_COUNTRIES, m) THEN TRUE
      ELSE IF someIncluded(visaHints, m) THEN TRUE
      ELSE FALSE

\* page.tsx:891-900
isSchengenQueryCity(msg) ==
  LET m == toLowerCase(msg)
  IN  IF someIncluded(visaHintsCity, m) THEN TRUE
      ELSE IF someIncluded(SCHENGEN_KEYWORDS, m) THEN TRUE
      ELSE FALSE

\* page.tsx:216-313, the branch onSubmit takes for the trimmed text
onSubmitBranch(userText) ==
  LET normalized == normalize(userText)
      cleaned    == cleanedOf(normalized)
  IN  IF arrayIncludes(greetings, cleaned) THEN "greeting"
      ELSE IF arrayIncludes(capabilityPhrases, normalized) THEN "capabilityQuery"
      ELSE IF ~isSchengenVisaQuery(normalized) THEN "outOfScope"
      ELSE "inScope"

\* part_000:209-278, the branch onSubmit takes for the trimmed text
onSubmitBranchGated(userText, isFirstUserQuestion) ==
  LET normalized == normalize(userText)
  IN  IF isFirstUserQuestion /\ arrayIncludes(introPhrases, normalized)
        THEN "capabilityQuery"
      ELSE IF ~isSchengenVisaQueryGated(normalized) THEN "outOfScope"
      ELSE "inScope"

\* page.tsx:626-658, what onSend answers ("inScope": it returns null)
onSend(text) ==
  LET m == toLowerCase(text)
  IN  IF arrayIncludes(onSendGreetings, m) THEN "greeting"
      ELSE IF someIncluded(onSendCapabilityPhrases, m) THEN "capabilityQuery"
      ELSE IF ~isSchengenQuery(m) THEN "outOfScope"
      ELSE "inScope"

\* page.tsx:930-963, what onSend answers ("inScope": it returns null)
onSendCity(text) ==
  LET m == toLowerCase(text)
  IN  IF arrayIncludes(onSendGreetings, m) THEN "greeting"
      ELSE IF someIncluded(onSendCapabilityPhrasesCity, m) THEN "capabilityQuery"
      ELSE IF ~isSchengenQueryCity(m) THEN "outOfScope"
      ELSE "inScope"

\* the positive terms of a version: the lists its keyword test searches
positiveTerms(v) ==
  CASE v = "page"    -> keywords
    [] v = "gated"   -> keywordsGated
    [] v = "onSend"  -> SCHENGEN_COUNTRIES \o visaHints
    [] v = "onSend2" -> visaHintsCity \o SCHENGEN_KEYWORDS

\* the text the classification of a version sees: onSubmit trims the form
\* value (page.tsx:217, part_000:210), the onSend versions pass it on as
\* typed (page.tsx:680, 988)
textSeen(v, message) ==
  IF v \in {"page", "gated"} THEN trim(message) ELSE message

\* the verdict of version v on the form value, the user's earlier messages
\* counted or not
verdictOf(v, message, isFirstUserQuestion) ==
  CASE v = "page"    -> onSubmitBranch(textSeen(v, message))
    [] v = "gated"   -> onSubmitBranchGated(textSeen(v, message),
                                            isFirstUserQuestion)
    [] v = "onSend"  -> onSend(textSeen(v, message))
    [] v = "onSend2" -> onSendCity(textSeen(v, message))

\* the verdicts of the texts of the model, evaluated once
Verdicts ==
  [v \in Variants |->
    [t \in AllTexts \cup LengthTexts |->
       [f \in BOOLEAN |-> verdictOf(v, t, f)]]]

\* the trimmed form of the texts of the model, evaluated once
Trimmed == [t \in AllTexts \cup LengthTexts |-> trim(t)]

(***************************************************************************)
(* Canned replies (the reply bank), abbreviated to their opening words.    *)
(***************************************************************************)
\* page.tsx:243
GREETING_REPLY == <<"Hi! I'm here to help Indian students with Schengen visas.">>

\* page.tsx:31-48
CAPABILITY_MESSAGE == <<"I am built only for one thing: helping Indian students">>

\* page.tsx:50-54
OUT_OF_SCOPE_MESSAGE == <<"Sorry, I'm not built for that. I can only help Indian students">>

\* part_000:31-51
CAPABILITY_MESSAGE_GATED == <<"I'm a Schengen visa assistant built specifically for students">>

\* part_000:53-59
OUT_OF_SCOPE_MESSAGE_GATED == <<"I'm restricted to only one domain:">>

\* page.tsx:633-634
ONSEND_GREETING == <<"Hi! I can help you with Schengen visa guidance. Ask me about">>

\* page.tsx:595-608
CAPABILITY_RESPONSE == <<"Here's what I can help you with as a Schengen Visa Assistant:">>

\* page.tsx:651-652
ONSEND_REFUSAL == <<"Sorry, I'm not built for that. I can only help with Schengen">>

\* page.tsx:937
ONSEND2_GREETING == <<"Hi! I can help you with Schengen visa guidance. Which country">>

\* page.tsx:903-914
CAPABILITY_TEXT == <<"Here's what I can help you with:">>

\* page.tsx:957
ONSEND2_REFUSAL == <<"Sorry, I'm only built to answer Schengen visa questions.">>

\* @/config WELCOME_MESSAGE (page.tsx:19, 199)
WELCOME_MESSAGE == <<"welcome">>

\* the reply a version gives for a verdict it answers itself
cannedReply(v, verdict) ==
  CASE v = "page" ->
         (CASE verdict = "greeting" -> GREETING_REPLY
            [] verdict = "capabilityQuery" -> CAPABILITY_MESSAGE
            [] OTHER -> OUT_OF_SCOPE_MESSAGE)
    [] v = "gated" ->
         (CASE verdict = "capabilityQuery" -> CAPABILITY_MESSAGE_GATED
            [] OTHER -> OUT_OF_SCOPE_MESSAGE_GATED)
    [] v = "onSend" ->
         (CASE verdict = "greeting" -> ONSEND_GREETING
            [] verdict = "capabilityQuery" -> CAPABILITY_RESPONSE
            [] OTHER -> ONSEND_REFUSAL)
    [] v = "onSend2" ->
         (CASE verdict = "greeting" -> ONSEND2_GREETING
            [] verdict = "capabilityQuery" -> CAPABILITY_TEXT
            [] OTHER -> ONSEND2_REFUSAL)

(***************************************************************************)
(* State of the chat page.                                                 *)
(***************************************************************************)
VARIABLES
  variant,                 \* the version of the page that runs
  isClient,                \* useState(false), page.tsx:151
  initialMessages,         \* useState(stored.messages), page.tsx:159
  welcomeMessageShownRef,  \* useRef(false), page.tsx:153
  messages,                \* useChat: the history
  durations,               \* useState({}), page.tsx:152
  status,                  \* useChat: "ready" | "submitted" | "streaming" | "error"
  localStorage,            \* the item under STORAGE_KEY: <<>> or <<value>>
  setItemFailures,         \* the times localStorage.setItem may still throw
  crashed,                 \* an error thrown by an effect has unmounted the page
  calls,                   \* useChat: the backend calls in flight, oldest first
  stopped,                 \* the replies stop() has aborted
  nextId,                  \* useChat: the ids generateId has handed out
  now,                     \* Date.now()
  last                     \* the operation that led to this state

vars ==
  <<variant, isClient, initialMessages, welcomeMessageShownRef, messages,
    durations, status, localStorage, setItemFailures, crashed, calls, stopped,
    nextId, now, last>>

\* UIMessage with one text part
Message(id, role, text) == [id |-> id, role |-> role, text |-> text]

\* Record<string, number> with no entry
NoDurations == [k \in {} |-> 0]

\* StorageData, page.tsx:56-59
Snapshot(m, d) == [messages |-> m, durations |-> d]

\* the content a backend reply has after n chunks
streamed(n) == [j \in 1..n |-> "chunk"]

\* a conversation an earlier session left in the store
SavedMessages ==
  <<Message(<<"old", 0>>, "user", trim(TxtFranceVisa)),
    Message(<<"old", 1>>, "assistant", streamed(1))>>

SavedDurations == [k \in {<<"old", 1>>} |-> 1]

\* what the store holds when the page opens
InitialStores == {<<>>, <<Snapshot(SavedMessages, SavedDurations)>>}

\* values of the item that no save of the page wrote: text that is not
\* JSON, the JSON values null and 5, and objects without one or both of the
\* fields
Unparsable == [json |-> "unparsable"]

JsonNull == [json |-> "null"]

JsonNumber == [json |-> "number"]

ObjectNoMessages == [durations |-> SavedDurations]

ObjectNoDurations == [messages |-> SavedMessages]

ObjectNoFields == [other |-> "x"]

CorruptStores ==
  {<<Unparsable>>, <<JsonNull>>, <<JsonNumber>>, <<ObjectNoMessages>>,
   <<ObjectNoDurations>>, <<ObjectNoFields>>}

\* value.field is not undefined
has(value, field) == field \in DOMAIN value

\* page.tsx:61-79: no item gives the empty snapshot; JSON.parse throws on
\* text that is not JSON and parsed.messages throws on null, both caught;
\* a field that is undefined is replaced by the empty value
loadMessagesFromStorage(store) ==
  IF store = <<>> THEN Snapshot(<<>>, NoDurations)
  ELSE LET parsed == store[1]
       IN  IF parsed \in {Unparsable, JsonNull}
             THEN Snapshot(<<>>, NoDurations)
             ELSE Snapshot(IF has(parsed, "messages") THEN parsed.messages ELSE <<>>,
                           IF has(parsed, "durations") THEN parsed.durations
                           ELSE NoDurations)

\* page.tsx:521-530 and 845-853: the value JSON.parse returns is returned
\* as it is
loadMessagesFromStorageParsed(store) ==
  IF store = <<>> THEN Snapshot(<<>>, NoDurations)
  ELSE IF store[1] = Unparsable THEN Snapshot(<<>>, NoDurations)
  ELSE store[1]

\* the versions whose load builds the snapshot field by field
loadFillsFields(v) == v \in {"page", "gated"}

\* what load returns in version v
loaded(v, store) ==
  IF loadFillsFields(v) THEN loadMessagesFromStorage(store)
  ELSE loadMessagesFromStorageParsed(store)

\* saveMessagesToStorage, but the durations are left out of the snapshot
saveMessagesToStorageNoDurations(store, m, d, ok) ==
  IF ok THEN <<Snapshot(m, NoDurations)>> ELSE store

\* page.tsx:81-92; ok: localStorage.setItem did not throw
saveMessagesToStorage(store, m, d, ok) ==
  IF ok THEN <<Snapshot(m, d)>> ELSE store

\* the versions whose saveMessagesToStorage catches what setItem throws
\* (page.tsx:86-91); the others call setItem bare (page.tsx:532-538, 855-858)
catchesSaveError(v) == v \in {"page", "gated"}

\* one call of saveMessagesToStorage, or several calls with the same
\* arguments, by a handler or by the persist effect (page.tsx:172-176); what
\* setItem throws in the persist effect and nothing catches unmounts the page
persist(m, d) ==
  \E ok \in (IF setItemFailures > 0 THEN BOOLEAN ELSE {TRUE}) :
    /\ localStorage' = saveMessagesToStorage(localStorage, m, d, ok)
    /\ setItemFailures' = IF ok THEN setItemFailures ELSE setItemFailures - 1
    /\ crashed' = (~ok /\ ~catchesSaveError(variant))

\* a backend call in flight: the id of its reply and of the user message it
\* answers, the chunks streamed so far, the values status took since the
\* submit, and whether the history was cleared since
Call(mid, uid, path) ==
  [mid |-> mid, uid |-> uid, chunks |-> 0, path |-> path, cleared |-> FALSE]

NoCall == Call(<<>>, <<>>, <<>>)

\* what one operation records about itself: the form value, the verdict and
\* the flag it was classified with, whether it called the backend or replied
\* itself, and the backend call it was about
Op(op) ==
  [op |-> op, text |-> <<>>, verdict |-> "none", first |-> FALSE,
   called |-> FALSE, local |-> FALSE, call |-> NoCall]

\* the calls in flight see status take the value st
logStatus(cs, st) ==
  [i \in 1..Len(cs) |->
     IF cs[i].path[Len(cs[i].path)] = st THEN cs[i]
     ELSE [cs[i] EXCEPT !.path = Append(@, st)]]

userMessagesSoFar(msgs) == Len(SelectSeq(msgs, LAMBDA m : m.role = "user"))

\* page.tsx:155-158: stored, the value load returned to the render
stored == loaded(variant, localStorage)

\* stored.messages and stored.durations as useState, useChat and the mount
\* effect take them: handed undefined, they hold no message and no duration
storedMessages == IF has(stored, "messages") THEN stored.messages ELSE <<>>

storedDurations == IF has(stored, "durations") THEN stored.durations ELSE NoDurations

\* the render reads stored.messages (page.tsx:159): of null, it throws
renderThrows == stored = JsonNull

\* the state after the first render (page.tsx:151-163), the store holding one
\* of stores and setItem failing at most failures times
FirstRender(stores, failures) ==
  /\ variant \in Variants
  /\ localStorage \in stores
  /\ setItemFailures = failures
  /\ crashed = renderThrows
  /\ isClient = FALSE
  /\ initialMessages = storedMessages
  /\ welcomeMessageShownRef = FALSE
  /\ messages = initialMessages
  /\ durations = NoDurations
  /\ status = "ready"
  /\ calls = <<>>
  /\ stopped = {}
  /\ nextId = 0
  /\ now = 0
  /\ last = Op("init")

\* a first visit: nothing is stored
Init == FirstRender({<<>>}, 0)

(***************************************************************************)
(* Effects of the component.                                               *)
(***************************************************************************)
\* page.tsx:165-176: the mount effect, then the persist effect of the render
\* it causes
MountEffect ==
  /\ ~isClient
  /\ ~crashed
  /\ isClient' = TRUE
  /\ durations' = storedDurations
  /\ messages' = storedMessages
  /\ IF has(stored, "messages") /\ has(stored, "durations")
       THEN persist(storedMessages, storedDurations)
       ELSE \* setMessages or setDurations is handed undefined: what useChat
            \* and the message wall make of it is not in the sources; the
            \* save writes the fields that are defined
            /\ crashed' \in BOOLEAN
            /\ UNCHANGED <<localStorage, setItemFailures>>
  /\ last' = Op("mount")
  /\ UNCHANGED <<variant, initialMessages, welcomeMessageShownRef, status,
                 calls, stopped, nextId, now>>

\* the versions with the welcome effect
hasWelcomeEffect(v) == v \in {"page", "gated"}

\* welcomeDue, but tested on the history shown instead of the loaded one and
\* without the flag
welcomeDueEmptyHistory ==
  /\ hasWelcomeEffect(variant)
  /\ isClient
  /\ ~crashed
  /\ Len(messages) = 0

\* page.tsx:188-192, the condition of the welcome effect
welcomeDue ==
  /\ hasWelcomeEffect(variant)
  /\ isClient
  /\ ~crashed
  /\ Len(initialMessages) = 0
  /\ ~welcomeMessageShownRef

\* page.tsx:186-207, then the persist effect
WelcomeEffect ==
  /\ welcomeDue
  /\ LET welcomeMessage == Message(<<"welcome", now>>, "assistant", WELCOME_MESSAGE)
     IN  /\ messages' = <<welcomeMessage>>
         /\ \E ok1, ok2 \in BOOLEAN :
              LET failed == (IF ok1 THEN 0 ELSE 1) + (IF ok2 THEN 0 ELSE 1)
              IN  /\ failed <= setItemFailures
                  /\ setItemFailures' = setItemFailures - failed
                  /\ localStorage' =
                       saveMessagesToStorage(
                         saveMessagesToStorage(localStorage, <<welcomeMessage>>,
                                               NoDurations, ok1),
                         <<welcomeMessage>>, durations, ok2)
  /\ welcomeMessageShownRef' = TRUE
  /\ last' = Op("welcome")
  /\ UNCHANGED <<variant, isClient, initialMessages, durations, status, crashed,
                 calls, stopped, nextId, now>>

\* the effects of mounting have run: the user can act
mounted == isClient /\ ~welcomeDue /\ ~crashed

\* sendMessage, but the user message joins the history twice
sendMessageEchoed(text, onSendVerdict, op) ==
  /\ nextId < 2 * MaxCalls
  /\ LET userMsg == Message(<<"gen", nextId>>, "user", text)
         replyId == <<"gen", nextId + 1>>
         call == Call(replyId, userMsg.id,
                      IF status = "submitted" THEN <<status>>
                      ELSE <<status, "submitted">>)
     IN  IF onSendVerdict = "inScope"
           THEN /\ messages' = messages \o <<userMsg, userMsg>>
                /\ status' = "submitted"
                /\ calls' = Append(logStatus(calls, "submitted"), call)
                /\ last' = [op EXCEPT !.called = TRUE, !.call = call]
           ELSE /\ messages' =
                     messages \o
                       <<userMsg,
                         Message(replyId, "assistant",
                                 cannedReply(variant, onSendVerdict))>>
                /\ last' = [op EXCEPT !.local = TRUE]
                /\ UNCHANGED <<status, calls>>
  /\ nextId' = nextId + 2
  /\ persist(messages', durations)
  /\ UNCHANGED <<variant, isClient, initialMessages, welcomeMessageShownRef,
                 durations, stopped, now>>

(***************************************************************************)
(* useChat (@ai-sdk/react), page.tsx:161-163.                              *)
(***************************************************************************)
\* sendMessage({ text }): the user message joins the history, the request
\* starts; onSendVerdict is what the onSend option answered ("inScope" in the
\* versions without it)
sendMessage(text, onSendVerdict, op) ==
  /\ nextId < 2 * MaxCalls
  /\ LET userMsg == Message(<<"gen", nextId>>, "user", text)
         replyId == <<"gen", nextId + 1>>
         call == Call(replyId, userMsg.id,
                      IF status = "submitted" THEN <<status>>
                      ELSE <<status, "submitted">>)
     IN  IF onSendVerdict = "inScope"
           THEN /\ messages' = Append(messages, userMsg)
                /\ status' = "submitted"
                /\ calls' = Append(logStatus(calls, "submitted"), call)
                /\ last' = [op EXCEPT !.called = TRUE, !.call = call]
           ELSE /\ messages' =
                     messages \o
                       <<userMsg,
                         Message(replyId, "assistant",
                                 cannedReply(variant, onSendVerdict))>>
                /\ last' = [op EXCEPT !.local = TRUE]
                /\ UNCHANGED <<status, calls>>
  /\ nextId' = nextId + 2
  /\ persist(messages', durations)
  /\ UNCHANGED <<variant, isClient, initialMessages, welcomeMessageShownRef,
                 durations, stopped, now>>

\* the backend streams a chunk of reply i: the reply so far replaces the last
\* message when that is this reply, and joins the history otherwise
Chunk(i) ==
  /\ ~crashed
  /\ calls[i].chunks < MaxChunks
  /\ LET mid == calls[i].mid
         msg == Message(mid, "assistant", streamed(calls[i].chunks + 1))
     IN  /\ messages' =
              IF messages # <<>> /\ messages[Len(messages)].id = mid
                THEN [messages EXCEPT ![Len(messages)] = msg]
                ELSE Append(messages, msg)
  /\ calls' = logStatus([calls EXCEPT ![i].chunks = @ + 1], "streaming")
  /\ last' = [Op("chunk") EXCEPT !.call = calls'[i]]
  /\ status' = "streaming"
  /\ persist(messages', durations)
  /\ UNCHANGED <<variant, isClient, initialMessages, welcomeMessageShownRef,
                 durations, stopped, nextId, now>>

\* the calls in flight without call i
without(cs, i) == SubSeq(cs, 1, i - 1) \o SubSeq(cs, i + 1, Len(cs))

\* the stream of reply i ends, as useChat sees it: a reply that succeeds has
\* streamed a chunk
finish(i) ==
  /\ ~crashed
  /\ calls[i].chunks >= 1
  /\ status' = "ready"
  /\ last' = [Op("finish") EXCEPT !.call = logStatus(calls, "ready")[i]]
  /\ calls' = without(logStatus(calls, "ready"), i)

\* the stream of reply i ends; the message wall is left out
Finish(i) ==
  /\ finish(i)
  /\ UNCHANGED <<variant, isClient, initialMessages, welcomeMessageShownRef,
                 messages, durations, localStorage, setItemFailures,
                 crashed, stopped, nextId, now>>

\* Fail, but status is left as it was
FailKeepsStatus(i) ==
  /\ ~crashed
  /\ last' = [Op("fail") EXCEPT !.call = calls[i]]
  /\ calls' = without(calls, i)
  /\ UNCHANGED <<variant, isClient, initialMessages, welcomeMessageShownRef,
                 messages, durations, status, localStorage, setItemFailures,
                 crashed, stopped, nextId, now>>

\* the request or the stream of reply i fails
Fail(i) ==
  /\ ~crashed
  /\ status' = "error"
  /\ last' = [Op("fail") EXCEPT !.call = logStatus(calls, "error")[i]]
  /\ calls' = without(logStatus(calls, "error"), i)
  /\ UNCHANGED <<variant, isClient, initialMessages, welcomeMessageShownRef,
                 messages, durations, localStorage, setItemFailures,
                 crashed, stopped, nextId, now>>

\* stop(): aborts the active response, the call started last
stop ==
  IF status \in {"streaming", "submitted"} /\ calls # <<>>
    THEN /\ status' = "ready"
         /\ last' = [Op("stop") EXCEPT
                       !.call = logStatus(calls, "ready")[Len(calls)]]
         /\ calls' = without(logStatus(calls, "ready"), Len(calls))
         /\ stopped' = stopped \cup {calls[Len(calls)].mid}
    ELSE /\ last' = Op("stop")
         /\ UNCHANGED <<status, calls, stopped>>

(***************************************************************************)
(* Handlers of the page.                                                   *)
(***************************************************************************)
\* formSchema, but with no .max(2000)
formSchemaNoMax(message) == Len(message) >= 1

\* page.tsx:22-27, zodResolver(formSchema)
formSchema(message) == Len(message) >= 1 /\ Len(message) <= MaxMessageLength

\* page.tsx:180-182: prevDurations with the entry of key set to duration
withDuration(prevDurations, key, duration) ==
  [k \in DOMAIN prevDurations \cup {key} |->
     IF k = key THEN duration ELSE prevDurations[k]]

\* localReply, but a duration is recorded for the canned reply
localReplyTimed(userText, branch, op) ==
  LET userMsg == Message(<<"user", now>>, "user", userText)
      assistantMsg ==
        Message(<<"assistant", IF branch = "outOfScope" THEN now + 1 ELSE now>>,
                "assistant", cannedReply(variant, branch))
      newMessages == messages \o <<userMsg, assistantMsg>>
  IN  /\ messages' = newMessages
      /\ durations' = withDuration(durations, assistantMsg.id, 1)
      /\ persist(newMessages, durations')
      /\ last' = [op EXCEPT !.local = TRUE]
      /\ UNCHANGED <<variant, isClient, initialMessages,
                     welcomeMessageShownRef, status, calls, stopped, nextId,
                     now>>

\* localReply, but the earlier history is left out of newMessages
localReplyDropsHistory(userText, branch, op) ==
  LET userMsg == Message(<<"user", now>>, "user", userText)
      assistantMsg ==
        Message(<<"assistant", IF branch = "outOfScope" THEN now + 1 ELSE now>>,
                "assistant", cannedReply(variant, branch))
      newMessages == <<userMsg, assistantMsg>>
  IN  /\ messages' = newMessages
      /\ persist(newMessages, durations)
      /\ last' = [op EXCEPT !.local = TRUE]
      /\ UNCHANGED <<variant, isClient, initialMessages,
                     welcomeMessageShownRef, durations, status, calls, stopped, nextId,
                     now>>

\* localReply, but only the canned reply joins the history
localReplyNoUserMessage(userText, branch, op) ==
  LET assistantMsg ==
        Message(<<"assistant", IF branch = "outOfScope" THEN now + 1 ELSE now>>,
                "assistant", cannedReply(variant, branch))
      newMessages == Append(messages, assistantMsg)
  IN  /\ messages' = newMessages
      /\ persist(newMessages, durations)
      /\ last' = [op EXCEPT !.local = TRUE]
      /\ UNCHANGED <<variant, isClient, initialMessages,
                     welcomeMessageShownRef, durations, status, calls, stopped, nextId,
                     now>>

\* localReply, but the canned reply is put before the user message
localReplyAssistantFirst(userText, branch, op) ==
  LET userMsg == Message(<<"user", now>>, "user", userText)
      assistantMsg ==
        Message(<<"assistant", IF branch = "outOfScope" THEN now + 1 ELSE now>>,
                "assistant", cannedReply(variant, branch))
      newMessages == messages \o <<assistantMsg, userMsg>>
  IN  /\ messages' = newMessages
      /\ persist(newMessages, durations)
      /\ last' = [op EXCEPT !.local = TRUE]
      /\ UNCHANGED <<variant, isClient, initialMessages,
                     welcomeMessageShownRef, durations, status, calls, stopped, nextId,
                     now>>

\* page.tsx:230-252, 269-286, 290-307: the reply the page gives itself
localReply(userText, branch, op) ==
  LET userMsg == Message(<<"user", now>>, "user", userText)
      assistantMsg ==
        Message(<<"assistant", IF branch = "outOfScope" THEN now + 1 ELSE now>>,
                "assistant", cannedReply(variant, branch))
      newMessages == messages \o <<userMsg, assistantMsg>>
  IN  /\ messages' = newMessages
      /\ persist(newMessages, durations)
      /\ last' = [op EXCEPT !.local = TRUE]
      /\ UNCHANGED <<variant, isClient, initialMessages,
                     welcomeMessageShownRef, durations, status, calls, stopped, nextId,
                     now>>

\* isFirstUserQuestion, but the assistant's messages are counted too
isFirstUserQuestionAnyRole == Len(messages) = 0

\* part_000:219-221
isFirstUserQuestion == userMessagesSoFar(messages) = 0

\* onSubmit, but without the refusal branch: what is not answered by a
\* greeting or the capability text goes to the backend
onSubmitNoRefusal(message) ==
  LET userText == Trimmed[message]
  IN  IF userText = <<>>
        THEN /\ last' = [Op("empty") EXCEPT !.text = message]
             /\ UNCHANGED <<variant, isClient, initialMessages,
                            welcomeMessageShownRef, messages, durations, status,
                            localStorage, setItemFailures,
                            crashed, calls, stopped,
                            nextId, now>>
        ELSE LET branch == Verdicts[variant][message][isFirstUserQuestion]
                 op == [Op("submit") EXCEPT !.text = message,
                                            !.verdict = branch,
                                            !.first = isFirstUserQuestion]
             IN  IF branch \in {"inScope", "outOfScope"}
                   THEN sendMessage(userText, "inScope", op)
                   ELSE localReply(userText, branch, op)

\* page.tsx:216-313 and part_000:209-278
onSubmit(message) ==
  LET userText == Trimmed[message]
  IN  IF userText = <<>>
        THEN /\ last' = [Op("empty") EXCEPT !.text = message]
             /\ UNCHANGED <<variant, isClient, initialMessages,
                            welcomeMessageShownRef, messages, durations, status,
                            localStorage, setItemFailures,
                            crashed, calls, stopped, nextId, now>>
        ELSE LET branch == Verdicts[variant][message][isFirstUserQuestion]
                 op == [Op("submit") EXCEPT !.text = message,
                                            !.verdict = branch,
                                            !.first = isFirstUserQuestion]
             IN  IF branch = "inScope"
                   THEN sendMessage(userText, "inScope", op)
                   ELSE localReply(userText, branch, op)

\* onSubmitOnSend, but the verdict also depends on the length of the history
onSubmitOnSendByLength(message) ==
  LET verdict == IF Len(messages) >= 3 THEN "outOfScope"
                 ELSE Verdicts[variant][message][isFirstUserQuestion]
      op == [Op("submit") EXCEPT !.text = message, !.verdict = verdict,
                                 !.first = isFirstUserQuestion]
  IN  sendMessage(message, verdict, op)

\* page.tsx:679-682 and 987-990, with the onSend option of useChat
\* (page.tsx:626-658, 930-963)
onSubmitOnSend(message) ==
  LET verdict == Verdicts[variant][message][isFirstUserQuestion]
      op == [Op("submit") EXCEPT !.text = message, !.verdict = verdict,
                                 !.first = isFirstUserQuestion]
  IN  sendMessage(message, verdict, op)

\* page.tsx:417-431: the Input takes the Enter key unless it is disabled
inputEnabled ==
  IF variant \in {"page", "gated"} THEN status # "streaming" ELSE TRUE

\* page.tsx:403 and 425-430: form.handleSubmit(onSubmit), by the button or
\* by the Enter key
SubmitForm(message) ==
  /\ mounted
  /\ inputEnabled
  /\ Len(messages) + 2 <= MaxMessages
  /\ IF ~formSchema(message)
       THEN /\ last' = [Op("invalid") EXCEPT !.text = message]
            /\ UNCHANGED <<variant, isClient, initialMessages,
                           welcomeMessageShownRef, messages, durations, status,
                           localStorage, setItemFailures,
                           crashed, calls, stopped, nextId, now>>
       ELSE IF variant \in {"page", "gated"}
         THEN onSubmit(message)
         ELSE onSubmitOnSend(message)

\* StopButton, but shown whatever status is
StopButtonAlways ==
  /\ mounted
  /\ stop
  /\ UNCHANGED <<variant, isClient, initialMessages, welcomeMessageShownRef,
                 messages, durations, localStorage, setItemFailures,
                 crashed, nextId,
                 now>>

\* page.tsx:442-454: the stop button, shown while a reply is awaited
StopButton ==
  /\ mounted
  /\ status \in {"streaming", "submitted"}
  /\ stop
  /\ UNCHANGED <<variant, isClient, initialMessages, welcomeMessageShownRef,
                 messages, durations, localStorage, setItemFailures,
                 crashed, nextId, now>>

\* clearChat, but setDurations is forgotten: the persist effect saves the
\* durations that stay
clearChatKeepsDurations ==
  /\ mounted
  /\ messages' = <<>>
  /\ persist(<<>>, durations)
  /\ calls' = [i \in 1..Len(calls) |-> [calls[i] EXCEPT !.cleared = TRUE]]
  /\ last' = Op("clear")
  /\ UNCHANGED <<variant, isClient, initialMessages, welcomeMessageShownRef,
                 durations, status, stopped, nextId, now>>

\* clearChat, but setMessages is forgotten: only the durations are emptied
clearChatKeepsHistory ==
  /\ mounted
  /\ durations' = NoDurations
  /\ persist(messages, NoDurations)
  /\ calls' = [i \in 1..Len(calls) |-> [calls[i] EXCEPT !.cleared = TRUE]]
  /\ last' = Op("clear")
  /\ UNCHANGED <<variant, isClient, initialMessages, welcomeMessageShownRef,
                 messages, status, stopped, nextId, now>>

\* page.tsx:315-322
clearChat ==
  /\ mounted
  /\ messages' = <<>>
  /\ durations' = NoDurations
  /\ persist(<<>>, NoDurations)
  /\ calls' = [i \in 1..Len(calls) |-> [calls[i] EXCEPT !.cleared = TRUE]]
  /\ last' = Op("clear")
  /\ UNCHANGED <<variant, isClient, initialMessages, welcomeMessageShownRef,
                 status, stopped, nextId, now>>

\* page.tsx:178-184, then the persist effect
handleDurationChange(key, duration) ==
  /\ mounted
  /\ durations' = withDuration(durations, key, duration)
  /\ durations' # durations
  /\ persist(messages, durations')
  /\ last' = Op("duration")
  /\ UNCHANGED <<variant, isClient, initialMessages, welcomeMessageShownRef,
                 messages, status, calls, stopped, nextId, now>>

\* the stream of reply i ends and the message wall reports the time the reply
\* took (the design: on completion, durations[newMessageId] is recorded):
\* handleDurationChange (page.tsx:178-184), then the persist effect
Completion(i, duration) ==
  /\ finish(i)
  /\ durations' = withDuration(durations, calls[i].mid, duration)
  /\ persist(messages, durations')
  /\ UNCHANGED <<variant, isClient, initialMessages, welcomeMessageShownRef,
                 messages, stopped, nextId, now>>

\* the page is reloaded: the component is constructed again from the store
\* (page.tsx:151-163); the requests in flight are gone with the old page
Reload ==
  /\ isClient
  /\ isClient' = FALSE
  /\ initialMessages' = storedMessages
  /\ welcomeMessageShownRef' = FALSE
  /\ messages' = initialMessages'
  /\ durations' = NoDurations
  /\ status' = "ready"
  /\ calls' = <<>>
  /\ crashed' = renderThrows
  /\ last' = Op("reload")
  /\ UNCHANGED <<variant, localStorage, setItemFailures, stopped, nextId, now>>

\* the keys the message wall reports a duration for
assistantIds == {messages[i].id : i \in {j \in 1..Len(messages) :
                                          messages[j].role = "assistant"}}

\* the versions whose duration callback is a functional update of the state
\* (page.tsx:179, part_000:172); the others spread the durations the render
\* captured (page.tsx:743, 1046)
functionalUpdate(v) == v \in {"page", "gated"}

\* the state update one call of the callback given to the message wall asks
\* for: rendered is the durations of the render that made the callback, prev
\* the state as the updates queued before it left it
onDurationChange(v, rendered, prev, key, duration) ==
  IF functionalUpdate(v) THEN withDuration(prev, key, duration)
  ELSE withDuration(rendered, key, duration)

\* the message wall reports two durations before the page renders again: both
\* calls go to the callback of the same render; then the persist effect
reportDurations(k1, d1, k2, d2) ==
  /\ mounted
  /\ durations' =
       onDurationChange(variant, durations,
                        onDurationChange(variant, durations, durations, k1, d1),
                        k2, d2)
  /\ persist(messages, durations')
  /\ last' = Op("durations")
  /\ UNCHANGED <<variant, isClient, initialMessages, welcomeMessageShownRef,
                 messages, status, calls, stopped, nextId, now>>

\* the clock advances
Tick ==
  /\ now < MaxClock
  /\ now' = now + 1
  /\ last' = Op("tick")
  /\ UNCHANGED <<variant, isClient, initialMessages, welcomeMessageShownRef,
                 messages, durations, status, localStorage, setItemFailures,
                 crashed, calls, stopped, nextId>>

\* the conversation: submits, the backend's replies, stop and clear
Next ==
  \/ MountEffect
  \/ WelcomeEffect
  \/ \E t \in SessionTexts : SubmitForm(t)
  \/ \E i \in 1..Len(calls) : calls[i].chunks < MaxShortReply /\ Chunk(i)
  \/ \E i \in 1..Len(calls) : Finish(i)
  \/ \E i \in 1..Len(calls) : Fail(i)
  \/ StopButton
  \/ clearChat

Spec == Init /\ [][Next]_vars

\* a returning or a first visit; the user types and clears, the backend's
\* replies are left out
InitC == FirstRender(InitialStores, 0)

NextC ==
  \/ MountEffect
  \/ WelcomeEffect
  \/ \E t \in AllTexts : SubmitForm(t)
  \/ clearChat

SpecC == InitC /\ [][NextC]_vars

\* the session with its store: setItem may throw, the message wall reports
\* the duration of a completed reply, the page may be reloaded
InitP == FirstRender({<<>>}, MaxFailures)

NextP ==
  \/ MountEffect
  \/ WelcomeEffect
  \/ \E t \in SessionTexts :
       /\ Len(messages) + 2 <= MaxStored
       /\ nextId < 2 * MaxSends
       /\ SubmitForm(t)
  \/ \E i \in 1..Len(calls) : Chunk(i)
  \/ \E i \in 1..Len(calls) : \E d \in 1..MaxDuration : Completion(i, d)
  \/ \E i \in 1..Len(calls) : Fail(i)
  \/ StopButton
  \/ clearChat
  \/ Reload

SpecP == InitP /\ [][NextP]_vars

\* the conversation with replies of several chunks
NextS ==
  \/ MountEffect
  \/ WelcomeEffect
  \/ \E t \in SessionTexts :
       /\ (Verdicts[variant][t][isFirstUserQuestion] = "inScope"
             => Len(calls) < MaxInFlight)
       /\ SubmitForm(t)
  \/ \E i \in 1..Len(calls) : Chunk(i)
  \/ \E i \in 1..Len(calls) : Finish(i)
  \/ \E i \in 1..Len(calls) : Fail(i)
  \/ StopButton
  \/ clearChat

SpecS == Init /\ [][NextS]_vars

\* the session with its clock: the user types and clears while time passes
InitT == FirstRender({<<>>}, 0)

NextT ==
  \/ MountEffect
  \/ WelcomeEffect
  \/ \E t \in SessionTexts : SubmitForm(t)
  \/ clearChat
  \/ Tick

SpecT == InitT /\ [][NextT]_vars

\* the stream of a backend call in flight terminates, by completion or by
\* failure
StreamEnds == \E i \in 1..Len(calls) : Finish(i) \/ Fail(i)

\* the conversation in which every stream of the backend terminates: the
\* library ends a call when its stream completes or fails, so the step is
\* taken whenever a call stays in flight
NextE ==
  \/ MountEffect
  \/ WelcomeEffect
  \/ \E t \in SessionTexts : nextId < 2 * MaxSends /\ SubmitForm(t)
  \/ \E i \in 1..Len(calls) : Chunk(i)
  \/ \E i \in 1..Len(calls) : Finish(i)
  \/ \E i \in 1..Len(calls) : Fail(i)
  \/ StopButton
  \/ clearChat

SpecE == Init /\ [][NextE]_vars /\ WF_vars(StreamEnds)

\* the session and the message wall's reports: one report between two renders
\* or two, for the replies of the history
NextD ==
  \/ MountEffect
  \/ WelcomeEffect
  \/ \E t \in SessionTexts : SubmitForm(t)
  \/ clearChat
  \/ \E k \in assistantIds : \E d \in 0..MaxDuration :
       handleDurationChange(k, d)
  \/ \E k1, k2 \in assistantIds : \E d1, d2 \in 0..MaxDuration :
       reportDurations(k1, d1, k2, d2)

SpecD == Init /\ [][NextD]_vars

\* the form and its validation: the user types messages of every length
NextV ==
  \/ MountEffect
  \/ WelcomeEffect
  \/ \E t \in LengthTexts : SubmitForm(t)
  \/ clearChat

SpecV == Init /\ [][NextV]_vars

\* the page opens on any value of the item, well formed or not, and may be
\* reloaded
AllStores == InitialStores \cup CorruptStores

InitL == FirstRender(AllStores, 0)

NextL ==
  \/ MountEffect
  \/ WelcomeEffect
  \/ \E t \in SessionTexts : SubmitForm(t)
  \/ clearChat
  \/ Reload

SpecL == InitL /\ [][NextL]_vars

(***************************************************************************)
(* Properties.                                                             *)
(***************************************************************************)
\* the id of some message of the history
inHistory(id) == \E i \in 1..Len(messages) : messages[i].id = id

\* C1: while status is submitted or streaming a submit, by the button or by
\* the Enter key, neither starts a backend call nor appends to the history
C1_SubmitInFlightRejected ==
  [][(last'.op = "submit" /\ status \in {"submitted", "streaming"})
       => (messages' = messages /\ calls' = calls)]_vars

\* C2: when the reply to a message submitted from status ready (idle)
\* completes, status has taken exactly ready, submitted, streaming, ready
\* since the submit, and the reply is in the history
C2_SuccessPath ==
  (last.op = "finish" /\ last.call.path[1] = "ready")
    => /\ last.call.path = <<"ready", "submitted", "streaming", "ready">>
       /\ (~last.call.cleared => inHistory(last.call.mid))

\* C3: when a backend call fails, status is error, the user message of the
\* submit is in the history (unless the chat was cleared since) and no
\* assistant message of that call is
C3_FailureLeavesNoReply ==
  last.op = "fail"
    => /\ status = "error"
       /\ (~last.call.cleared => inHistory(last.call.uid))
       /\ ~inHistory(last.call.mid)

\* C4: stop is taken only while status is submitted or streaming; it sets
\* status to ready (idle), leaves the history unchanged, and no chunk of an
\* aborted call is streamed afterwards
C4_StopKeepsPartial ==
  [][/\ last'.op = "stop"
          => /\ status \in {"submitted", "streaming"}
             /\ status' = "ready"
             /\ messages' = messages
             /\ last'.call.mid \in stopped'
             /\ \A i \in 1..Len(calls') : calls'[i].mid # last'.call.mid
     /\ last'.op = "chunk" => last'.call.mid \notin stopped]_vars

\* stop has aborted a reply after its first chunk: the partial reply is in
\* the history
C4_Witness ==
  /\ last.op = "stop"
  /\ status = "ready"
  /\ last.call.chunks >= 1
  /\ inHistory(last.call.mid)

\* the changes of status the design allows
AllowedTransitions ==
  {<<"ready", "submitted">>, <<"submitted", "streaming">>,
   <<"submitted", "ready">>, <<"streaming", "ready">>,
   <<"submitted", "error">>, <<"streaming", "error">>,
   <<"error", "ready">>, <<"error", "submitted">>}

\* C5: every change of status is one of the allowed transitions
C5_StatusTransitions ==
  [][status' # status => <<status, status'>> \in AllowedTransitions]_vars

\* C6: a submit whose text is empty after trimming changes neither the
\* history nor the durations nor status, is not classified and calls no
\* backend
C6_EmptySubmitRejected ==
  [][(last'.op \in {"submit", "empty", "invalid"} /\ Trimmed[last'.text] = <<>>)
       => /\ messages' = messages
          /\ durations' = durations
          /\ status' = status
          /\ calls' = calls
          /\ last'.verdict = "none"]_vars

\* C7: a submit calls the backend exactly when its text is classified inScope:
\* then one call starts and only the user message joins the history; otherwise
\* no call starts and the canned reply of the verdict follows the user message
C7_BackendIffInScope ==
  [][last'.op = "submit"
       => LET verdict ==
                Verdicts[variant][last'.text][userMessagesSoFar(messages) = 0]
          IN  IF verdict = "inScope"
                THEN /\ Len(calls') = Len(calls) + 1
                     /\ status' = "submitted"
                     /\ Len(messages') = Len(messages) + 1
                     /\ messages'[Len(messages')].role = "user"
                ELSE /\ calls' = calls
                     /\ status' = status
                     /\ Len(messages') = Len(messages) + 2
                     /\ messages'[Len(messages') - 1].role = "user"
                     /\ messages'[Len(messages')].role = "assistant"
                     /\ messages'[Len(messages')].text =
                          cannedReply(variant, verdict)]_vars

\* an in-scope text was submitted: the backend was called, nothing was
\* answered by the page
C7_Witness ==
  /\ last.op = "submit"
  /\ last.verdict = "inScope"
  /\ last.called
  /\ ~last.local
  /\ status = "submitted"
  /\ Len(calls) = 1
  /\ messages[Len(messages)].role = "user"

\* C8: a text whose normalized form contains a negative term, and that is
\* neither a greeting nor a capability phrase, is refused and not forwarded
C8_NegativePrecedence ==
  (/\ last.op = "submit"
   /\ someIncluded(negativeTerms, normalize(last.text))
   /\ last.verdict \notin {"greeting", "capabilityQuery"})
    => (last.verdict = "outOfScope" /\ ~last.called)

\* the greeting tokens of a version; the gated version has no greeting branch
greetingTokens(v) ==
  CASE v = "page" -> greetings
    [] v \in {"onSend", "onSend2"} -> onSendGreetings
    [] OTHER -> <<>>

\* C9: a text that equals a greeting token after lower-casing, removing the
\* question marks, collapsing white space, trimming and stripping what is no
\* letter or space is classified greeting and answered with the greeting
C9_GreetingAfterNormalization ==
  (/\ last.op \in {"submit", "empty", "invalid"}
   /\ arrayIncludes(greetingTokens(variant),
                    stripNonLetters(normalize(last.text))))
    => /\ last.verdict = "greeting"
       /\ messages # <<>>
       /\ messages[Len(messages)].text = cannedReply(variant, "greeting")

\* C10: in the gated version a capability phrase gets the capability text
\* when no user message precedes it, and the refusal when one does
C10_FirstMessageGating ==
  [][(/\ variant = "gated"
      /\ last'.op = "submit"
      /\ arrayIncludes(introPhrases, normalize(Trimmed[last'.text])))
       => /\ Len(messages') = Len(messages) + 2
          /\ IF userMessagesSoFar(messages) = 0
               THEN /\ last'.verdict = "capabilityQuery"
                    /\ messages'[Len(messages')].text = CAPABILITY_MESSAGE_GATED
               ELSE /\ last'.verdict = "outOfScope"
                    /\ messages'[Len(messages')].text =
                         OUT_OF_SCOPE_MESSAGE_GATED]_vars

\* the gated version has answered a capability phrase with the capability
\* text and then, the welcome message and that exchange in the history, the
\* same phrase with the refusal
C10_Witness ==
  /\ variant = "gated"
  /\ last.op = "submit"
  /\ ~last.first
  /\ last.verdict = "outOfScope"
  /\ normalize(Trimmed[last.text]) = normalize(TxtWhatCanYouDo)
  /\ Len(messages) = 5
  /\ messages[1].text = WELCOME_MESSAGE
  /\ messages[2].text = messages[4].text
  /\ messages[3].text = CAPABILITY_MESSAGE_GATED
  /\ messages[5].text = OUT_OF_SCOPE_MESSAGE_GATED

\* C11: a text that is neither a greeting nor a capability phrase, holds no
\* negative term, and whose normalized form contains a positive term of the
\* version is classified inScope and forwarded to the backend
C11_PositiveTermInScope ==
  (/\ last.op = "submit"
   /\ last.verdict \notin {"greeting", "capabilityQuery"}
   /\ ~someIncluded(negativeTerms, normalize(last.text))
   /\ someIncluded(positiveTerms(variant), normalize(last.text)))
    => (last.verdict = "inScope" /\ last.called)

\* the snapshot load gives when nothing, or an empty session, is stored
EmptySnapshot == Snapshot(<<>>, NoDurations)

\* the saves of the step did not throw
saveSucceeded == setItemFailures' = setItemFailures

\* C12 as claimed: after a clear, load gives the empty history and the empty
\* durations, whatever the state the clear was taken in, and a clear after a
\* clear changes nothing
C12_ClearThenLoadEmpty ==
  [][last'.op = "clear"
       => /\ loadMessagesFromStorage(localStorage') = EmptySnapshot
          /\ (last.op = "clear"
                => /\ messages' = messages
                   /\ durations' = durations
                   /\ localStorage' = localStorage)]_vars

\* C12 as amended: after a clear whose save did not throw, load gives the
\* empty history and the empty durations, whatever the state the clear was
\* taken in; a clear after a clear changes neither the history nor the
\* durations in memory
C12_ClearThenLoadEmptyIfSaved ==
  [][last'.op = "clear"
       => /\ messages' = <<>>
          /\ durations' = NoDurations
          /\ (saveSucceeded
                => loadMessagesFromStorage(localStorage') = EmptySnapshot)
          /\ (last.op = "clear"
                => /\ messages' = messages
                   /\ durations' = durations)]_vars

\* a clear was taken while a backend call was in flight: the store holds the
\* empty snapshot
C12_Witness ==
  /\ last.op = "clear"
  /\ calls # <<>>
  /\ calls[1].cleared
  /\ status \in {"submitted", "streaming"}
  /\ messages = <<>>
  /\ localStorage = <<EmptySnapshot>>
  /\ loadMessagesFromStorage(localStorage) = EmptySnapshot

\* C13: a clear empties the history and the durations in the same step,
\* classifies nothing and starts no backend call
C13_ClearAtomic ==
  [][last'.op = "clear"
       => /\ messages' = <<>> /\ durations' = NoDurations
          /\ Len(calls') = Len(calls)
          /\ status' = status
          /\ nextId' = nextId
          /\ last'.verdict = "none" /\ ~last'.called /\ ~last'.local]_vars

\* a clear has emptied a history and durations that both held something: the
\* store, whose save failed, still shows them
C13_Witness ==
  /\ last.op = "clear"
  /\ messages = <<>> /\ durations = NoDurations
  /\ localStorage # <<>>
  /\ localStorage[1].messages # <<>>
  /\ localStorage[1].durations # NoDurations

\* C14: an out-of-scope submit taken right after a submit of the same text,
\* out of scope too, keeps the history and appends a user and an assistant
\* message: the history ends with user, assistant, user, assistant, the two
\* user texts equal and the two assistant texts equal
C14_RepeatedRefusal ==
  [][(/\ last.op = "submit" /\ last.verdict = "outOfScope"
      /\ last'.op = "submit" /\ last'.verdict = "outOfScope"
      /\ last'.text = last.text)
       => LET n == Len(messages')
          IN  /\ n = Len(messages) + 2
              /\ SubSeq(messages', 1, Len(messages)) = messages
              /\ n >= 4
              /\ messages'[n - 3].role = "user"
              /\ messages'[n - 2].role = "assistant"
              /\ messages'[n - 1].role = "user"
              /\ messages'[n].role = "assistant"
              /\ messages'[n - 1].text = messages'[n - 3].text
              /\ messages'[n].text = messages'[n - 2].text
              /\ messages'[n].text = cannedReply(variant, "outOfScope")]_vars

\* the same out-of-scope text was submitted twice in a row: the history ends
\* with the two exchanges, the refusal twice
C14_Witness ==
  /\ last.op = "submit" /\ last.verdict = "outOfScope"
  /\ Len(messages) >= 4
  /\ LET n == Len(messages)
     IN  /\ messages[n - 3].role = "user"
         /\ messages[n - 1].role = "user"
         /\ messages[n - 3].text = textSeen(variant, last.text)
         /\ messages[n - 1].text = textSeen(variant, last.text)
         /\ messages[n - 2].text = cannedReply(variant, "outOfScope")
         /\ messages[n].text = cannedReply(variant, "outOfScope")

\* C15: after a submit that was answered locally (greeting, capabilityQuery
\* or outOfScope) status is ready (idle), whatever it was before the submit
C15_LocalReplyLeavesIdle ==
  (last.op = "submit" /\ last.local) => status = "ready"

\* C16: a submit answered locally leaves the durations as they were: no
\* entry is added for the user message or for the canned reply
C16_LocalReplyNotTimed ==
  [][(last'.op = "submit" /\ last'.local)
       => /\ durations' = durations
          /\ \A i \in Len(messages) + 1..Len(messages') :
               messages'[i].id \notin DOMAIN durations']_vars

\* a submit was answered locally in a session whose durations hold the entry
\* of an earlier reply: the entry is all the durations hold
C16_Witness ==
  /\ last.op = "submit" /\ last.local
  /\ durations = SavedDurations
  /\ Len(messages) >= 4
  /\ messages[Len(messages)].role = "assistant"
  /\ messages[Len(messages)].id \notin DOMAIN durations

\* an assistant message whose content was streamed by the backend
backendReply(m) ==
  /\ m.role = "assistant"
  /\ m.text # <<>>
  /\ m.text = streamed(Len(m.text))

\* C17: whenever status is ready (idle), every assistant message of the
\* history that a backend call produced has an entry in durations under its id
C17_BackendRepliesTimed ==
  status = "ready"
    => \A i \in 1..Len(messages) :
         backendReply(messages[i]) => messages[i].id \in DOMAIN durations

\* C18: the ids of the messages of the history are pairwise distinct
C18_DistinctIds ==
  \A i, j \in 1..Len(messages) : i # j => messages[i].id # messages[j].id

\* s is an initial part of t
isPrefix(s, t) == Len(s) <= Len(t) /\ SubSeq(t, 1, Len(s)) = s

C20_StoreEqualsMemory ==
  [][(/\ messages' # messages \/ durations' # durations
      /\ last'.op # "reload"
      /\ saveSucceeded)
       => /\ localStorage' = <<Snapshot(messages', durations')>>
          /\ loadMessagesFromStorage(localStorage') = Snapshot(messages', durations')]_vars

\* an earlier save threw, and the completion of a backend call then reported
\* a duration: the store holds the history and the durations in memory
C20_Witness ==
  /\ last.op = "finish"
  /\ setItemFailures < MaxFailures
  /\ durations # NoDurations
  /\ Len(messages) >= 2
  /\ localStorage = <<Snapshot(messages, durations)>>

\* C21: a submit, a clear or a completion with its duration report whose
\* save threw is not aborted: the page keeps running with the history, the
\* durations and status the operation set
C21_SaveFailureHarmless ==
  [][(~saveSucceeded /\ last'.op \in {"submit", "clear", "finish"})
       => ~crashed']_vars

\* C22: whenever the item is missing or is not a snapshot, load returns the
\* empty snapshot and the render that called it does not throw
C22_LoadTolerant ==
  (localStorage = <<>> \/ localStorage \in CorruptStores)
    => /\ loaded(variant, localStorage) = EmptySnapshot
       /\ ~renderThrows

\* C23: a submit of a message of more than 2000 characters is rejected by
\* the form: nothing is classified, no backend call starts, and the history,
\* the durations, status and the store stay as they were
C23_TooLongRejected ==
  [][Len(last'.text) > MaxMessageLength
       => /\ last'.op = "invalid"
          /\ last'.verdict = "none"
          /\ ~last'.called
          /\ ~last'.local
          /\ UNCHANGED <<messages, durations, status, calls, localStorage, nextId>>]_vars

\* a message of 2001 characters was rejected after one of 2000 characters
\* was accepted and answered
C23_Witness ==
  /\ last.op = "invalid"
  /\ last.text = TxtTooLong
  /\ \E i \in 1..Len(messages) :
        messages[i].role = "user" /\ Len(messages[i].text) = MaxMessageLength

\* C24: from status error only a submit changes status or starts a backend
\* call, and the form takes a submit whenever status is error
C24_ErrorUntilSubmit ==
  [][status = "error"
       => /\ mounted => inputEnabled
          /\ last'.op # "submit"
               => /\ status' = "error"
                  /\ Len(calls') <= Len(calls)
                  /\ ~last'.called]_vars

\* the user message at place i of the history was the first of its session
firstUserMessage(i) == \A k \in 1..(i - 1) : messages[k].role # "user"

\* what the page answered to the user message at place i: the canned reply
\* that follows it, or nothing when the message went to the backend
answer(i) ==
  IF /\ i < Len(messages)
     /\ messages[i + 1].role = "assistant"
     /\ ~backendReply(messages[i + 1])
    THEN messages[i + 1].text
    ELSE <<>>

C26_EmptyNormalizedRefused ==
  [][(last'.op = "submit" /\ normalize(last'.text) = <<>>)
       => /\ last'.verdict = "outOfScope"
          /\ ~last'.called
          /\ calls' = calls
          /\ status' = status
          /\ ~crashed'
          /\ Len(messages') = Len(messages) + 2
          /\ messages'[Len(messages')].text = cannedReply(variant, "outOfScope")]_vars

\* a text of question marks only was refused after an earlier exchange
C26_Witness ==
  /\ last.op = "submit"
  /\ last.text = TxtQuestionMark
  /\ normalize(last.text) = <<>>
  /\ last.local
  /\ Len(messages) >= 4
  /\ messages[Len(messages)].text = cannedReply(variant, "outOfScope")

\* C27: when the effects of the first load have run and the user can act,
\* the history is the messages of the snapshot the page found in the store,
\* empty when it found none, and the durations are the durations of that
\* snapshot
C27_LoadedEqualsPersisted ==
  (mounted /\ last.op \in {"mount", "welcome"})
    => /\ messages = initialMessages
       /\ localStorage # <<>>
       /\ durations = localStorage[1].durations

\* C28: a submit is classified as the first user question exactly when no
\* message of the history before it has role user; after every accepted
\* submit, answered by the page or sent on, the next submit is not the
\* first; after a clear the next submit is the first again; the welcome
\* message does not change which submit is the first
C28_FirstUserMessageFlag ==
  [][/\ last'.op = "submit"
          => /\ last'.first = (\A i \in 1..Len(messages) : messages[i].role # "user")
             /\ ~isFirstUserQuestion'
     /\ last'.op = "clear" => isFirstUserQuestion'
     /\ last'.op = "welcome" => isFirstUserQuestion' = isFirstUserQuestion]_vars

\* a question went to the backend, the history was cleared while the call
\* was in flight, and the next submit, a capability phrase, was classified as
\* the first question
C28_Witness ==
  /\ variant = "gated"
  /\ last.op = "submit"
  /\ last.first
  /\ last.verdict = "capabilityQuery"
  /\ last.local
  /\ calls # <<>>
  /\ calls[1].cleared
  /\ Len(messages) = 2
  /\ ~isFirstUserQuestion

\* C29: an accepted submit keeps the history it found as the beginning of
\* the new history and puts one user message, with the text submitted, right
\* after it; sent to the backend, nothing else joins the history; answered
\* by the page, one assistant message follows and the history is longer by
\* two
C29_SubmitAppends ==
  [][last'.op = "submit"
       => LET n == Len(messages)
          IN  /\ isPrefix(messages, messages')
              /\ Len(messages') = IF last'.local THEN n + 2 ELSE n + 1
              /\ messages'[n + 1].role = "user"
              /\ messages'[n + 1].text = textSeen(variant, last'.text)
              /\ last'.local => messages'[n + 2].role = "assistant"
              /\ last'.local # last'.called]_vars

\* a question was sent to the backend right after a submit the page had
\* answered itself
C29_Witness ==
  /\ last.op = "submit"
  /\ last.called
  /\ Len(messages) >= 4
  /\ messages[Len(messages)].role = "user"
  /\ messages[Len(messages)].text = textSeen(variant, last.text)
  /\ messages[Len(messages) - 1].role = "assistant"
  /\ ~backendReply(messages[Len(messages) - 1])
  /\ messages[Len(messages) - 2].role = "user"

\* the capability phrases of a version without first-message gating
capabilityTokens(v) ==
  CASE v = "page" -> capabilityPhrases
    [] v = "onSend" -> onSendCapabilityPhrases
    [] v = "onSend2" -> onSendCapabilityPhrasesCity
    [] OTHER -> <<>>

\* C30: in the versions without first-message gating a text whose normalized
\* form is a capability phrase is classified capabilityQuery and answered
\* with the capability text, wherever in the conversation it is submitted
C30_CapabilityAnywhere ==
  (/\ last.op \in {"submit", "empty", "invalid"}
   /\ arrayIncludes(capabilityTokens(variant), normalize(last.text)))
    => /\ last.verdict = "capabilityQuery"
       /\ messages # <<>>
       /\ messages[Len(messages)].text = cannedReply(variant, "capabilityQuery")

\* C31: when every stream of the backend terminates, a status of submitted
\* or streaming is followed by a status of ready or error
C31_CallsEnd ==
  (status \in {"submitted", "streaming"}) ~> (status \in {"ready", "error"})

\* a call ended by failure after it had streamed, while the history had
\* been cleared under it
C31_Witness ==
  /\ last.op = "fail"
  /\ status = "error"
  /\ last.call.chunks >= 1
  /\ last.call.cleared
  /\ calls = <<>>

\* C32: a step of a backend reply that was in flight when clear ran changes
\* neither the history nor durations
C32_ClearedReplySilent ==
  [][(last'.op \in {"chunk", "finish", "fail"} /\ last'.call.cleared)
       => messages' = messages /\ durations' = durations]_vars

\* C33: after two reports for different keys, issued before the page renders
\* again, durations holds both entries and every other entry is as it was
C33_ReportsKept ==
  [][\A k1, k2 \in assistantIds : \A d1, d2 \in 0..MaxDuration :
       (k1 # k2 /\ reportDurations(k1, d1, k2, d2))
         => /\ DOMAIN durations' = DOMAIN durations \cup {k1, k2}
            /\ durations'[k1] = d1
            /\ durations'[k2] = d2
            /\ \A k \in DOMAIN durations \ {k1, k2} :
                 durations'[k] = durations[k]]_vars

\* C34: every key of durations is the id of a message of the history
C34_DurationsOfHistory == \A k \in DOMAIN durations : inHistory(k)

\* C35: the welcome message is inserted only as the first step after the
\* mount of a loaded session (so at most once in it, and never after a clear
\* or a submit), only when the loaded history is empty, and into an empty
\* history, so that no message is replaced or discarded
C35_WelcomeOnce ==
  [][WelcomeEffect
       => /\ last.op = "mount"
          /\ initialMessages = <<>>
          /\ storedMessages = <<>>
          /\ messages = <<>>
          /\ messages' = <<Message(<<"welcome", now>>, "assistant",
                                   WELCOME_MESSAGE)>>]_vars

\* the history was cleared in a session that had been given the welcome
\* message: the effect is not due again
C35_Witness ==
  /\ last.op = "clear"
  /\ hasWelcomeEffect(variant)
  /\ welcomeMessageShownRef
  /\ initialMessages = <<>>
  /\ messages = <<>>
  /\ ~welcomeDue

====
